---- MODULE Spec2Model ----
(***************************************************************************)
(* Record rules (ir.rule) of odoo/addons/base/models/ir_rule.py: rule      *)
(* selection, domain composition, the ormcache in front of the             *)
(* composition, the rule store's create/write/unlink, the failure          *)
(* analyzer and the access error message.                                  *)
(*                                                                         *)
(* A domain is a sequence of tokens in prefix notation, as in odoo: "&"    *)
(* and "|" are the binary operators, "T" is TRUE_LEAF (1,'=',1), "F" is    *)
(* FALSE_LEAF (0,'=',1), "id_in" is the leaf ('id','in',ids), every other  *)
(* token is a leaf produced by evaluating a rule's domain_force.           *)
(***************************************************************************)
EXTENDS Integers, Sequences, FiniteSets, TLC

\* ----------------------------------------------------------------- bounds
MaxRules == 2
NumRecords == 2
MaxId == 2

\* -------------------------------------------------------------- constants
_MODES == {"read", "write", "create", "unlink"}
_name == "ir.rule"

RuleIds == 1..MaxRules
StoreIds == 1..MaxId
Records == 1..NumRecords
NoRule == [absent |-> TRUE]

\* res.users and their res.groups (groups_id); only "admin" is in both
\* base.group_no_one and base.group_user.
Users == {"admin", "emp", "portal"}
GroupsOf(uid) ==
  CASE uid = "admin"  -> {"g1", "base.group_no_one", "base.group_user"}
    [] uid = "emp"    -> {"g1", "g2", "base.group_user"}
    [] uid = "portal" -> {"g2", "base.group_no_one"}

\* the values of the context key allowed_company_ids
CompanyChoices == {<<1>>, <<2>>}

\* domain_force: "" is an empty template, "a" stands for [('x','=',1)],
\* "c" for [('company_id','in',company_ids)].
Templates == {"", "a", "c"}
CompanyOf(r) == r

\* ------------------------------------------------------------ expression
TRUE_LEAF == "T"
FALSE_LEAF == "F"
AND_OPERATOR == "&"
OR_OPERATOR == "|"

normalize_domain(domain) == IF domain = <<>> THEN <<TRUE_LEAF>> ELSE domain

RECURSIVE Repeat(_, _)
Repeat(tok, n) == IF n <= 0 THEN <<>> ELSE <<tok>> \o Repeat(tok, n - 1)

RECURSIVE combineLoop(_, _, _, _, _, _, _)
combineLoop(operator, unit, zero, domains, i, result, count) ==
  IF i > Len(domains)
  THEN LET r == Repeat(operator, count - 1) \o result
       IN  IF r = <<>> THEN unit ELSE r
  ELSE LET domain == domains[i] IN
       IF domain = unit THEN combineLoop(operator, unit, zero, domains, i + 1, result, count)
       ELSE IF domain = zero THEN zero
       ELSE IF domain # <<>>
            THEN combineLoop(operator, unit, zero, domains, i + 1,
                             result \o normalize_domain(domain), count + 1)
            ELSE combineLoop(operator, unit, zero, domains, i + 1, result, count)

combine(operator, unit, zero, domains) ==
  IF domains = <<unit>> THEN unit
  ELSE combineLoop(operator, unit, zero, domains, 1, <<>>, 0)

AND(domains) == combine(AND_OPERATOR, <<TRUE_LEAF>>, <<FALSE_LEAF>>, domains)
OR(domains) == combine(OR_OPERATOR, <<FALSE_LEAF>>, <<TRUE_LEAF>>, domains)

\* safe_eval(domain_force, eval_context): company_ids is substituted.
safe_eval(domain_force, companies) ==
  CASE domain_force = "a" -> <<"a">>
    [] domain_force = "c" -> IF companies = <<1>> THEN <<"c1">> ELSE <<"c2">>
    [] OTHER -> <<>>

\* ---------------------------------------------------------- record store
LeafMatches(leaf, r, ids) ==
  CASE leaf = TRUE_LEAF  -> TRUE
    [] leaf = FALSE_LEAF -> FALSE
    [] leaf = "id_in"    -> r \in ids
    [] leaf = "a"        -> r = 1
    [] leaf = "c1"       -> CompanyOf(r) = 1
    [] leaf = "c2"       -> CompanyOf(r) = 2
    [] OTHER -> FALSE

RECURSIVE EvalFrom(_, _, _, _)
EvalFrom(dom, i, r, ids) ==
  IF dom[i] \in {AND_OPERATOR, OR_OPERATOR}
  THEN LET a == EvalFrom(dom, i + 1, r, ids)
           b == EvalFrom(dom, a.n, r, ids)
       IN  [v |-> IF dom[i] = AND_OPERATOR THEN a.v /\ b.v ELSE a.v \/ b.v, n |-> b.n]
  ELSE [v |-> LeafMatches(dom[i], r, ids), n |-> i + 1]

Matches(dom, r, ids) == EvalFrom(dom, 1, r, ids).v

search_count(dom, ids) == Cardinality({r \in Records : Matches(dom, r, ids)})

\* ------------------------------------------------------------ rule store
\* A stored rule; `global` is the stored computed field (not groups).
Rule(model, groups, domain_force, perms, active) ==
  [model |-> model, groups |-> groups, domain_force |-> domain_force,
   perms |-> perms, active |-> active]

IsGlobal(rule) == rule.groups = {}

\* name is a plain Char field; the model fixes it by the rule's id.
RuleName(id) == id

\* the caller's environment: uid, env.su and the context keys read here
Ctx(uid, su, bypass, companies) ==
  [uid |-> uid, su |-> su, bypass |-> bypass, companies |-> companies]

MaxOf(S) == IF S = {} THEN 0 ELSE CHOOSE x \in S : \A y \in S : y <= x

RECURSIVE OrderById(_)
\* the ids of S in ascending order (ORDER BY r.id; filtered() keeps the order)
OrderById(S) ==
  IF S = {} THEN <<>>
  ELSE LET m == MaxOf(S) IN Append(OrderById(S \ {m}), m)

Present(rs) == {id \in DOMAIN rs : rs[id] # NoRule}

\* _get_rules without the env.su query: the user's group rules are selected
\* under elevation too
_get_rules_su_ignored(rs, ctx, model_name, mode) ==
  IF ctx.su /\ ctx.bypass THEN <<>>
  ELSE OrderById({id \in Present(rs) :
                    /\ rs[id].model = model_name /\ rs[id].active /\ mode \in rs[id].perms
                    /\ (rs[id].groups \cap GroupsOf(ctx.uid) # {} \/ IsGlobal(rs[id]))})

_get_rules(rs, ctx, model_name, mode) ==
  IF ctx.su /\ ctx.bypass THEN <<>>
  ELSE IF ctx.su
  THEN OrderById({id \in Present(rs) :
                    /\ rs[id].model = model_name /\ rs[id].active /\ mode \in rs[id].perms
                    /\ IsGlobal(rs[id])})
  ELSE OrderById({id \in Present(rs) :
                    /\ rs[id].model = model_name /\ rs[id].active /\ mode \in rs[id].perms
                    /\ (rs[id].groups \cap GroupsOf(ctx.uid) # {} \/ IsGlobal(rs[id]))})

\* ------------------------------------------------------------ composition
NoneVal == [none |-> TRUE, dom |-> <<>>]
Dom(d) == [none |-> FALSE, dom |-> d]

RuleDomain(rule, ctx) ==
  IF rule.domain_force # "" THEN safe_eval(rule.domain_force, ctx.companies) ELSE <<>>

RECURSIVE CollectDomains(_, _, _, _, _)
\* the loop of _compute_domain over rules[i..]: <<global_domains, group_domains>>
CollectDomains(rs, ids, i, ctx, acc) ==
  IF i > Len(ids) THEN acc
  ELSE LET rule == rs[ids[i]]
           dom == normalize_domain(RuleDomain(rule, ctx))
       IN  IF rule.groups = {}
           THEN CollectDomains(rs, ids, i + 1, ctx, <<Append(acc[1], dom), acc[2]>>)
           ELSE IF rule.groups \cap GroupsOf(ctx.uid) # {}
           THEN CollectDomains(rs, ids, i + 1, ctx, <<acc[1], Append(acc[2], dom)>>)
           ELSE CollectDomains(rs, ids, i + 1, ctx, acc)

\* _compute_domain with the group domains AND-ed like the global ones
_compute_domain_groups_anded(rs, ctx, model_name, mode) ==
  LET ids == _get_rules(rs, ctx, model_name, mode) IN
  IF ids = <<>> THEN NoneVal
  ELSE LET doms == CollectDomains(rs, ids, 1, ctx, <<<<>>, <<>>>>)
       IN  Dom(AND(doms[1] \o doms[2]))

_compute_domain(rs, ctx, model_name, mode) ==
  LET ids == _get_rules(rs, ctx, model_name, mode) IN
  IF ids = <<>> THEN NoneVal
  ELSE LET doms == CollectDomains(rs, ids, 1, ctx, <<<<>>, <<>>>>)
           global_domains == doms[1]
           group_domains == doms[2]
       IN  IF group_domains = <<>>
           THEN Dom(AND(global_domains))
           ELSE Dom(AND(Append(global_domains, OR(group_domains))))

\* tuple(self._compute_domain_context_values()) over _compute_domain_keys()
_compute_domain_context_values(ctx) == <<ctx.companies>>

\* the ormcache key of _compute_domain
CacheKey(ctx, model_name, mode) ==
  <<ctx.uid, ctx.su, model_name, mode, _compute_domain_context_values(ctx)>>

\* ------------------------------------------------------- failure analyzer
RECURSIVE MapDomains(_, _, _)
MapDomains(rs, ids, ctx) ==
  IF ids = <<>> THEN <<>>
  ELSE <<RuleDomain(rs[Head(ids)], ctx)>> \o MapDomains(rs, Tail(ids), ctx)

SeqRange(seq) == {seq[i] : i \in DOMAIN seq}

\* _get_failing with the group test inverted: the group rules are kept when
\* every record passes them
_get_failing_group_test_inverted(rs, ctx, model_name, for_records, mode) ==
  LET all_rules == _get_rules(rs, ctx, model_name, mode)
      InGroup(id) == rs[id].groups # {} /\ rs[id].groups \cap GroupsOf(ctx.uid) # {}
      group_rules0 == OrderById({id \in SeqRange(all_rules) : InGroup(id)})
      group_domains == OR(MapDomains(rs, group_rules0, ctx))
      group_rules ==
        IF search_count(AND(<< <<"id_in">>, group_domains >>), for_records)
             # Cardinality(for_records)
        THEN <<>> ELSE group_rules0
      is_failing(id) ==
        LET dom == RuleDomain(rs[id], ctx)
        IN  search_count(AND(<< <<"id_in">>, normalize_domain(dom) >>), for_records)
              < Cardinality(for_records)
      Failing(id) == id \in SeqRange(group_rules) \/ (rs[id].groups = {} /\ is_failing(id))
  IN  OrderById({id \in SeqRange(all_rules) : Failing(id)})

_get_failing(rs, ctx, model_name, for_records, mode) ==
  LET all_rules == _get_rules(rs, ctx, model_name, mode)
      InGroup(id) == rs[id].groups # {} /\ rs[id].groups \cap GroupsOf(ctx.uid) # {}
      group_rules0 == OrderById({id \in SeqRange(all_rules) : InGroup(id)})
      group_domains == OR(MapDomains(rs, group_rules0, ctx))
      group_rules ==
        IF search_count(AND(<< <<"id_in">>, group_domains >>), for_records)
             = Cardinality(for_records)
        THEN <<>> ELSE group_rules0
      is_failing(id) ==
        LET dom == RuleDomain(rs[id], ctx)
        IN  search_count(AND(<< <<"id_in">>, normalize_domain(dom) >>), for_records)
              < Cardinality(for_records)
      Failing(id) == id \in SeqRange(group_rules) \/ (rs[id].groups = {} /\ is_failing(id))
  IN  OrderById({id \in SeqRange(all_rules) : Failing(id)})

\* ----------------------------------------------------------- access error
SampleSize == 6

Prefix(seq, n) == SubSeq(seq, 1, IF Len(seq) < n THEN Len(seq) ELSE n)

RECURSIVE Names(_)
Names(ids) == IF ids = <<>> THEN <<>> ELSE <<RuleName(Head(ids))>> \o Names(Tail(ids))

has_group(uid, group) == group \in GroupsOf(uid)

\* msg_heads[operation] followed by resolution_info, and nothing else
GenericMsg(operation, model) ==
  [head |-> <<operation, model>>, records |-> <<>>, user |-> "", rules |-> <<>>,
   note |-> FALSE, footer |-> TRUE]

NoMsg ==
  [head |-> <<"", "">>, records |-> <<>>, user |-> "", rules |-> <<>>,
   note |-> FALSE, footer |-> FALSE]

\* _make_access_error with the entitlement test conjoined: the generic message
\* only for a user in neither group
_make_access_error_either_group(rs, ctx, operation, model, records, probe_fails) ==
  IF ~has_group(ctx.uid, "base.group_no_one") /\ ~has_group(ctx.uid, "base.group_user")
  THEN [kind |-> "AccessError", analyzed |-> FALSE, msg |-> GenericMsg(operation, model)]
  ELSE IF probe_fails
  THEN [kind |-> "Exception", analyzed |-> TRUE, msg |-> NoMsg]
  ELSE LET flagged == _get_failing(rs, ctx, model, records, operation)
       IN  [kind |-> "AccessError", analyzed |-> TRUE,
            msg |-> [head |-> <<operation, model>>,
                     records |-> Prefix(OrderById(records), SampleSize),
                     user |-> ctx.uid,
                     rules |-> Names(flagged),
                     note |-> \E i \in DOMAIN flagged : rs[flagged[i]].domain_force = "c",
                     footer |-> TRUE]]

\* probe_fails: a search_count of the analyzer raises (record store error)
_make_access_error(rs, ctx, operation, model, records, probe_fails) ==
  IF ~has_group(ctx.uid, "base.group_no_one") \/ ~has_group(ctx.uid, "base.group_user")
  THEN [kind |-> "AccessError", analyzed |-> FALSE, msg |-> GenericMsg(operation, model)]
  ELSE IF probe_fails
  THEN [kind |-> "Exception", analyzed |-> TRUE, msg |-> NoMsg]
  ELSE LET flagged == _get_failing(rs, ctx, model, records, operation)
       IN  [kind |-> "AccessError", analyzed |-> TRUE,
            msg |-> [head |-> <<operation, model>>,
                     records |-> Prefix(OrderById(records), SampleSize),
                     user |-> ctx.uid,
                     rules |-> Names(flagged),
                     note |-> \E i \in DOMAIN flagged : rs[flagged[i]].domain_force = "c",
                     footer |-> TRUE]]

\* ------------------------------------------------------------------ state
VARIABLES
  rules,    \* the ir_rule table: id -> rule or NoRule
  nextId,   \* the next value of the table's id sequence
  cache,    \* the ormcache of _compute_domain: key -> value
  pc,       \* each caller of _compute_domain: "idle" or "computed"
  args,     \* the arguments of the call in flight
  val,      \* the value the wrapped method returned, not yet stored
  ret,      \* what the caller's last call returned
  res,      \* the outcome of the last create/write/unlink
  call,     \* the last call of a diagnostics run and its inputs
  dom,      \* what _compute_domain returned there
  failing,  \* what _get_failing returned there
  err       \* what _make_access_error returned or raised there

vars == <<rules, nextId, cache, pc, args, val, ret, res, call, dom, failing, err>>
cacheVars == <<nextId, cache, pc, args, val, ret, res>>
diagVars == <<call, dom, failing, err>>

Threads == {"t1"}
CallModes == {"read", "write"}
NoCall == [op |-> "none", ctx |-> Ctx("admin", FALSE, FALSE, <<2>>), mode |-> "read",
           records |-> {}, probe_fails |-> FALSE]
NoErr == [kind |-> "none", analyzed |-> FALSE, msg |-> NoMsg]

\* --------------------------------------------- analysis of one rule table
RW == {"read", "write"}
RuleValues ==
  {Rule("m", g, t, RW, TRUE) : g \in {{}, {"g1"}, {"g2"}}, t \in Templates}
  \cup {Rule("m", {}, "a", RW, FALSE), Rule("o", {}, "a", RW, TRUE),
        Rule("m", {}, "a", {"read", "unlink"}, TRUE)}

DiagCtxs ==
  {Ctx(u, su, b, c) : u \in Users, su \in BOOLEAN, b \in BOOLEAN, c \in CompanyChoices}

InitDiag ==
  /\ rules \in [RuleIds -> RuleValues \cup {NoRule}]
  /\ nextId = MaxRules + 1
  /\ cache = <<>>
  /\ pc = [t \in Threads |-> "idle"]
  /\ args = [t \in Threads |-> [ctx |-> NoCall.ctx, model |-> "m", mode |-> "read"]]
  /\ val = [t \in Threads |-> NoneVal]
  /\ ret = [t \in Threads |-> NoneVal]
  /\ res = "ok"
  /\ call = NoCall
  /\ dom = NoneVal
  /\ failing = <<>>
  /\ err = NoErr

DiagCompute(ctx, mode) ==
  /\ call.op = "none"
  /\ call' = [op |-> "compute", ctx |-> ctx, mode |-> mode, records |-> {},
              probe_fails |-> FALSE]
  /\ dom' = _compute_domain(rules, ctx, "m", mode)
  /\ failing' = <<>>
  /\ err' = NoErr
  /\ UNCHANGED <<rules, cacheVars>>

DiagGetFailing(ctx, mode, records) ==
  /\ call.op = "none"
  /\ call' = [op |-> "failing", ctx |-> ctx, mode |-> mode, records |-> records,
              probe_fails |-> FALSE]
  /\ dom' = NoneVal
  /\ failing' = _get_failing(rules, ctx, "m", records, mode)
  /\ err' = NoErr
  /\ UNCHANGED <<rules, cacheVars>>

DiagAccessError(ctx, operation, records, probe_fails) ==
  /\ call.op = "none"
  /\ call' = [op |-> "error", ctx |-> ctx, mode |-> operation, records |-> records,
              probe_fails |-> probe_fails]
  /\ dom' = NoneVal
  /\ failing' = <<>>
  /\ err' = _make_access_error(rules, ctx, operation, "m", records, probe_fails)
  /\ UNCHANGED <<rules, cacheVars>>

NextDiag ==
  \/ \E ctx \in DiagCtxs, mode \in _MODES : DiagCompute(ctx, mode)
  \/ \E ctx \in DiagCtxs, mode \in CallModes, records \in (SUBSET Records) \ {{}} :
       /\ ~ctx.bypass /\ ctx.companies = <<2>>
       /\ DiagGetFailing(ctx, mode, records)
  \/ \E ctx \in DiagCtxs, mode \in CallModes, records \in (SUBSET Records) \ {{}},
        probe_fails \in BOOLEAN :
       /\ ~ctx.bypass /\ ~ctx.su /\ ctx.companies = <<2>>
       /\ DiagAccessError(ctx, mode, records, probe_fails)

SpecDiag == InitDiag /\ [][NextDiag]_vars

\* ------------------------------------------------- claims on one rule table
\* what a template lets through, stated on the template itself
TemplateAllows(t, companies, r) ==
  \/ t = ""
  \/ t = "a" /\ r = 1
  \/ t = "c" /\ \E i \in DOMAIN companies : companies[i] = CompanyOf(r)

\* the rules of the model carrying the operation's flag
Carrying(rs, model_name, mode) ==
  {id \in DOMAIN rs : rs[id] # NoRule /\ rs[id].model = model_name
                      /\ rs[id].active /\ mode \in rs[id].perms}
GlobalRules(rs, model_name, mode) ==
  {id \in Carrying(rs, model_name, mode) : rs[id].groups = {}}
GroupRules(rs, uid, model_name, mode) ==
  {id \in Carrying(rs, model_name, mode) : rs[id].groups \cap GroupsOf(uid) # {}}

FilterOf(rule, companies) ==
  IF rule.domain_force = "" THEN <<TRUE_LEAF>> ELSE safe_eval(rule.domain_force, companies)
RECURSIVE FiltersOf(_, _, _)
FiltersOf(rs, ids, companies) ==
  IF ids = <<>> THEN <<>>
  ELSE <<FilterOf(rs[Head(ids)], companies)>> \o FiltersOf(rs, Tail(ids), companies)

\* C1: for a non-elevated user the filter of _compute_domain is AND(filters of
\* the model's active global rules carrying the flag) conjoined with OR(filters
\* of its group rules that intersect the user's groups) when there is such a
\* group rule, the AND of the globals alone when there is none, and None when
\* no rule applies; an empty template is always-true, and the filter lets a
\* record through exactly when every global rule does and, if group rules
\* apply, one of them does.
C1_CompositionLaw ==
  (call.op = "compute" /\ ~call.ctx.su) =>
    LET G == GlobalRules(rules, "m", call.mode)
        H == GroupRules(rules, call.ctx.uid, "m", call.mode)
        gs == FiltersOf(rules, OrderById(G), call.ctx.companies)
        hs == FiltersOf(rules, OrderById(H), call.ctx.companies)
    IN  /\ dom.none <=> (G \cup H = {})
        /\ ~dom.none =>
             /\ dom.dom = IF H = {} THEN AND(gs) ELSE AND(Append(gs, OR(hs)))
             /\ \A r \in Records :
                  Matches(dom.dom, r, {}) <=>
                    /\ \A g \in G : TemplateAllows(rules[g].domain_force, call.ctx.companies, r)
                    /\ H = {} \/ \E h \in H :
                         TemplateAllows(rules[h].domain_force, call.ctx.companies, r)

C1_Witness ==
  /\ call.op = "compute" /\ ~call.ctx.su
  /\ GlobalRules(rules, "m", call.mode) # {}
  /\ GroupRules(rules, call.ctx.uid, "m", call.mode) # {}
  /\ dom = Dom(<<"&", "a", "c2">>)

GlobalsOnly(rs) ==
  [id \in DOMAIN rs |-> IF rs[id] # NoRule /\ rs[id].groups # {} THEN NoRule ELSE rs[id]]

\* C4: under elevation the composed filter is the one of the rule table with
\* every group rule removed, and it does not change when a group rule's
\* template, active flag or permission flags change.
C4_ElevationIsolatesGlobals ==
  (call.op = "compute" /\ call.ctx.su) =>
    /\ dom = _compute_domain(GlobalsOnly(rules), call.ctx, "m", call.mode)
    /\ \A id \in Present(rules) : rules[id].groups # {} =>
         \A t \in Templates, a \in BOOLEAN, p \in {RW, {"read", "unlink"}} :
           dom = _compute_domain(
                   [rules EXCEPT ![id] = Rule(rules[id].model, rules[id].groups, t, p, a)],
                   call.ctx, "m", call.mode)

C4_Witness ==
  /\ call.op = "compute" /\ call.ctx.su /\ ~call.ctx.bypass
  /\ GroupRules(rules, call.ctx.uid, "m", call.mode) # {}
  /\ GlobalRules(rules, "m", call.mode) # {}
  /\ ~dom.none

\* whether the composition of the flagged rules (AND of the flagged global
\* rules, AND OR of the flagged group rules) excludes record r
ExcludedByFlagged(rs, flagged, companies, r) ==
  LET fg == {id \in flagged : rs[id].groups = {}}
      fh == {id \in flagged : rs[id].groups # {}}
  IN  \/ \E g \in fg : ~TemplateAllows(rs[g].domain_force, companies, r)
      \/ fh # {} /\ \A h \in fh : ~TemplateAllows(rs[h].domain_force, companies, r)

\* the records among `records` that the composed filter excludes
ExcludedByComposed(rs, ctx, mode, records) ==
  LET composed == _compute_domain(rs, ctx, "m", mode)
  IN  {r \in records : ~composed.none /\ ~Matches(composed.dom, r, {})}

\* C5: when the composed filter excludes one of the checked records,
\* _get_failing returns a non-empty rule set, and the composition of exactly
\* the flagged rules excludes every checked record the composed filter excludes.
C5_DenialCompleteness ==
  call.op = "failing" =>
    LET excl == ExcludedByComposed(rules, call.ctx, call.mode, call.records)
    IN  excl # {} =>
          /\ failing # <<>>
          /\ \A r \in excl :
               ExcludedByFlagged(rules, SeqRange(failing), call.ctx.companies, r)

C5_Witness ==
  /\ call.op = "failing"
  /\ ExcludedByComposed(rules, call.ctx, call.mode, call.records) # {}
  /\ \E i \in DOMAIN failing : rules[failing[i]].groups # {}
  /\ \E i \in DOMAIN failing : rules[failing[i]].groups = {}

\* C9: for a set of records the composed filter denies, _get_failing returns exactly the applicable global rules whose own
\* filter lets through fewer of the denied records than there are, together
\* with all applicable group rules when the disjunction of their filters lets
\* through fewer of the denied records than there are, and no group rule
\* otherwise; an empty template is always-true in both layers.
C9_ExactAttribution ==
  (/\ call.op = "failing"
   /\ call.records = ExcludedByComposed(rules, call.ctx, call.mode, call.records)) =>
    LET G == GlobalRules(rules, "m", call.mode)
        H == IF call.ctx.su THEN {} ELSE GroupRules(rules, call.ctx.uid, "m", call.mode)
        Through(S) == Cardinality(S) < Cardinality(call.records)
        failingG == {g \in G : Through({r \in call.records :
                        TemplateAllows(rules[g].domain_force, call.ctx.companies, r)})}
        groupFails == Through({r \in call.records : \E h \in H :
                        TemplateAllows(rules[h].domain_force, call.ctx.companies, r)})
    IN  SeqRange(failing) = failingG \cup (IF groupFails THEN H ELSE {})

Entitled(uid) == {"base.group_no_one", "base.group_user"} \subseteq GroupsOf(uid)

\* C6: for a user who is not in both base.group_no_one and base.group_user,
\* _make_access_error returns an AccessError made of the operation's header and
\* the footer only, whatever the rules and the records, and _get_failing is
\* not run.
C6_NoDetailLeak ==
  (call.op = "error" /\ ~Entitled(call.ctx.uid)) =>
    /\ err.kind = "AccessError"
    /\ ~err.analyzed
    /\ err.msg.head = <<call.mode, "m">>
    /\ err.msg.footer
    /\ err.msg.records = <<>> /\ err.msg.user = "" /\ err.msg.rules = <<>> /\ ~err.msg.note

C6_Witness ==
  /\ call.op = "error" /\ call.ctx.uid = "emp" /\ ~call.ctx.su
  /\ err.kind = "AccessError"
  /\ _get_failing(rules, call.ctx, "m", call.records, call.mode) # <<>>

\* C7: when a probe of the failure analyzer fails while the detailed message
\* is built for an entitled user, an AccessError with the generic message is
\* still produced.
C7_DiagnosticsBestEffort ==
  (call.op = "error" /\ Entitled(call.ctx.uid) /\ call.probe_fails) =>
    /\ err.kind = "AccessError"
    /\ err.msg = GenericMsg(call.mode, "m")

\* ------------------------------------------- the rule store and the cache
\* the constraints without _check_model_name
IsValid_flags_only(vals) == vals.perms # {}

\* _sql_constraints no_access_rights and _check_model_name
IsValid(vals) == vals.perms # {} /\ vals.model # _name

DraftValues ==
  {Rule("m", {}, "a", {"read"}, TRUE), Rule("m", {}, "", {"read"}, TRUE),
   Rule("m", {"g1"}, "a", {"read"}, TRUE),
   Rule("m", {}, "a", {}, TRUE), Rule(_name, {"g1"}, "", {"read"}, TRUE)}

CacheModes == {"read"}
CacheCtxs == {Ctx(u, su, b, <<1>>) : u \in {"admin", "portal"}, su \in BOOLEAN, b \in BOOLEAN}

Init ==
  /\ rules = [id \in StoreIds |-> NoRule]
  /\ nextId = 1
  /\ cache = <<>>
  /\ pc = [t \in Threads |-> "idle"]
  /\ args = [t \in Threads |-> [ctx |-> NoCall.ctx, model |-> "m", mode |-> "read"]]
  /\ val = [t \in Threads |-> NoneVal]
  /\ ret = [t \in Threads |-> NoneVal]
  /\ res = "ok"
  /\ call = NoCall
  /\ dom = NoneVal
  /\ failing = <<>>
  /\ err = NoErr

\* self.clear_caches()
clear_caches == <<>>

\* create(vals_list): super().create validates and inserts, then the cache
\* is cleared; a ValidationError leaves before clear_caches.
create(vals) ==
  IF ~IsValid(vals)
  THEN /\ res' = "ValidationError"
       /\ UNCHANGED <<rules, nextId, cache, pc, args, val, ret, diagVars>>
  ELSE /\ nextId <= MaxId
       /\ rules' = [rules EXCEPT ![nextId] = vals]
       /\ nextId' = nextId + 1
       /\ cache' = clear_caches
       /\ res' = "ok"
       /\ UNCHANGED <<pc, args, val, ret, diagVars>>

write(id, vals) ==
  /\ rules[id] # NoRule
  /\ IF ~IsValid(vals)
     THEN /\ res' = "ValidationError"
          /\ UNCHANGED <<rules, nextId, cache, pc, args, val, ret, diagVars>>
     ELSE /\ rules' = [rules EXCEPT ![id] = vals]
          /\ cache' = clear_caches
          /\ res' = "ok"
          /\ UNCHANGED <<nextId, pc, args, val, ret, diagVars>>

unlink(id) ==
  /\ rules[id] # NoRule
  /\ rules' = [rules EXCEPT ![id] = NoRule]
  /\ cache' = clear_caches
  /\ res' = "ok"
  /\ UNCHANGED <<nextId, pc, args, val, ret, diagVars>>

\* ormcache lookup of _compute_domain: a hit returns the cached value
Hit(t, ctx, model_name, mode) ==
  /\ pc[t] \in {"idle", "returned"}
  /\ CacheKey(ctx, model_name, mode) \in DOMAIN cache
  /\ args' = [args EXCEPT ![t] = [ctx |-> ctx, model |-> model_name, mode |-> mode]]
  /\ ret' = [ret EXCEPT ![t] = cache[CacheKey(ctx, model_name, mode)]]
  /\ pc' = [pc EXCEPT ![t] = "returned"]
  /\ UNCHANGED <<rules, nextId, cache, val, res, diagVars>>

\* a miss runs the method: the rules are read and composed
Miss(t, ctx, model_name, mode) ==
  /\ pc[t] \in {"idle", "returned"}
  /\ CacheKey(ctx, model_name, mode) \notin DOMAIN cache
  /\ args' = [args EXCEPT ![t] = [ctx |-> ctx, model |-> model_name, mode |-> mode]]
  /\ val' = [val EXCEPT ![t] = _compute_domain(rules, ctx, model_name, mode)]
  /\ pc' = [pc EXCEPT ![t] = "computed"]
  /\ UNCHANGED <<rules, nextId, cache, ret, res, diagVars>>

\* the value the method returned is stored under the key and returned
Store(t) ==
  /\ pc[t] = "computed"
  /\ LET key == CacheKey(args[t].ctx, args[t].model, args[t].mode)
     IN  cache' = [k \in DOMAIN cache \cup {key} |-> IF k = key THEN val[t] ELSE cache[k]]
  /\ ret' = [ret EXCEPT ![t] = val[t]]
  /\ val' = [val EXCEPT ![t] = NoneVal]
  /\ pc' = [pc EXCEPT ![t] = "returned"]
  /\ UNCHANGED <<rules, nextId, args, res, diagVars>>

Next ==
  \/ \E vals \in DraftValues : create(vals)
  \/ \E id \in StoreIds, vals \in DraftValues : write(id, vals)
  \/ \E id \in StoreIds : unlink(id)
  \/ \E t \in Threads, ctx \in CacheCtxs, mode \in CacheModes : Hit(t, ctx, "m", mode)
  \/ \E t \in Threads, ctx \in CacheCtxs, mode \in CacheModes : Miss(t, ctx, "m", mode)
  \/ \E t \in Threads : Store(t)

Spec == Init /\ [][Next]_vars

\* ------------------------------------------------- claims on the cache
\* the caller contexts whose calls use the cache key
ContextsOf(key) ==
  {c \in CacheCtxs \X CacheModes : CacheKey(c[1], "m", c[2]) = key}

Fresh(key, value) ==
  \E c \in ContextsOf(key) : value = _compute_domain(rules, c[1], "m", c[2])

\* C2: once a create, write or unlink has completed, no call of
\* _compute_domain returns a value composed from the rules as they were before
\* it: every cached value is the composition of the current rules for a caller
\* of its key.
C2_CacheCoherence ==
  \A key \in DOMAIN cache : Fresh(key, cache[key])

\* C3: a call under env.su with bypass_global_rules set returns None, whatever
\* calls came before.
C3_BypassNoRestriction ==
  \A t \in Threads :
    (pc[t] = "returned" /\ args[t].ctx.su /\ args[t].ctx.bypass) => ret[t] = NoneVal

\* C10: the value a call gets from the cache is the value _compute_domain
\* computes for that caller against the current rules: a cached value composed
\* from the current rules is the composition for every caller context of its
\* key, those that differ only in bypass_global_rules included.
C10_CacheTransparency ==
  \A key \in DOMAIN cache :
    Fresh(key, cache[key]) =>
      \A c \in ContextsOf(key) : cache[key] = _compute_domain(rules, c[1], "m", c[2])

\* C8: a create or write that would leave a rule without any permission flag
\* or with ir.rule as its model fails with a ValidationError and leaves the
\* rule table and the cache as they were; no stored rule is ever one of these.
C8_NoInvalidStored ==
  \A id \in StoreIds : rules[id] # NoRule => (rules[id].perms # {} /\ rules[id].model # "ir.rule")

\* C8, as a whole: no stored rule is invalid, and a step of create or write
\* that ends in a ValidationError changes neither the rule table, nor its id
\* sequence, nor the cache.
C8_RejectedChangesNothing ==
  /\ []C8_NoInvalidStored
  /\ [][(res' = "ValidationError" /\ pc' = pc) =>
          (rules' = rules /\ cache' = cache /\ nextId' = nextId)]_vars

C8_Witness ==
  /\ res = "ValidationError"
  /\ cache # <<>>
  /\ \E id \in StoreIds : rules[id] # NoRule

====
